---- MODULE Spec2Model ----
(***************************************************************************)
(* Model of the customer service agent of customer_service_agent.ipynb:    *)
(* a LangGraph StateGraph over a State dict with four keys, walked from    *)
(* START to END by graph.invoke, one node per step.  The three external    *)
(* collaborators (the structured-output classifier chain, the generating   *)
(* llm and the MongoDB collection) are inputs chosen with \E.              *)
(***************************************************************************)
EXTENDS Integers, Sequences, FiniteSets, TLC

VARIABLES
    pc,          \* pc[r]: position of run r (next node to run, or its end)
    state,       \* state[r]: the State dict of run r (channel values)
    updates,     \* updates[r]: the nodes run so far with the update each returned
    calls,       \* calls[r]: the capability invocations of run r, in order
    out,         \* out[r]: what run r printed, in order
    error,       \* error[r]: the exception that left run_agent, or NoError
    collection,  \* the documents of customer_service_database.customer_service
    query_arg    \* query_arg[r]: the query argument of call r of run_agent

vars == <<pc, state, updates, calls, out, error, collection, query_arg>>

----------------------------------------------------------------------------
(* Bounds and value domains *)

\* number of distinct non-empty texts the generating llm may answer with
MaxGen == 1

\* the two calls of run_agent that are followed (first and second)
Runs == {1, 2}

\* the queries a caller may pass: the empty string and two of the test cell
Queries == {"", "What are your business hours?",
            "The delivery experience of my recent package was pretty bad."}

\* a key the dict does not hold
Unset == "<unset>"

Fields == {"query", "category", "sentiment", "response"}

\* the values the system prompt asks the classifier for
SentimentDomain == {"Positive", "Neutral", "Negative"}
CategoryDomain == {"General", "Billing", "Technical"}

\* values a str field of QueryDetails can hold beyond the prompted ones
OtherSentiments == {"Mixed"}
OtherCategories == {"Shipping"}

\* QueryDetails: two str fields, no further constraint
QueryDetails ==
    [sentiment : SentimentDomain \cup OtherSentiments,
     category : CategoryDomain \cup OtherCategories]

\* what chain.invoke does: it returns a QueryDetails or it raises
ClassifierOutcomes ==
    [raises : {FALSE}, sentiment : SentimentDomain \cup OtherSentiments,
     category : CategoryDomain \cup OtherCategories]
    \cup {[raises |-> TRUE, sentiment |-> "", category |-> ""]}

\* texts the llm answers with (from the outputs of the test cell)
SampleTexts ==
    << "Our business hours are from 9:00 AM to 6:00 PM, Monday through Friday.",
       "Thank you for your inquiry. The installation process typically takes 3-5 business days.",
       "Thank you for your inquiry. Booking your trip one month in advance may qualify you for early booking discounts." >>

\* the content of the llm's answer: the empty string or a text
GenContents == {""} \cup {SampleTexts[i] : i \in 1 .. MaxGen}

\* what llm.invoke does: it returns a message with a content or it raises
GeneratorOutcomes ==
    [raises : {FALSE}, content : GenContents] \cup {[raises |-> TRUE, content |-> ""]}

NoError == "none"

\* labels for the exception leaving graph.invoke, by the call that raised it
ClassifierUnavailableError == "ClassifierUnavailableError"
GenerationError == "GenerationError"
StoreWriteError == "StoreWriteError"
RoutingError == "RoutingError"

----------------------------------------------------------------------------
(* State *)

\* variant: the dict of the first call is kept and given the new query
InitialState_reused(query) ==
    [query |-> query, category |-> state[1].category,
     sentiment |-> state[1].sentiment, response |-> state[1].response]

\* graph.invoke({"query": query}): only the query key is written
InitialState(query) ==
    [query |-> query, category |-> Unset, sentiment |-> Unset, response |-> Unset]

\* no dict yet: run_agent has not been called
NoState == [f \in Fields |-> Unset]

\* a node that returns None (or raises) writes nothing
NoUpdate == [f \in {} |-> Unset]

\* the returned dict is written key by key over the State (last value wins)
Merge(st, upd) ==
    [f \in Fields |-> IF f \in DOMAIN upd THEN upd[f] ELSE st[f]]

----------------------------------------------------------------------------
(* Node functions: each yields the update it returns, or raises *)

EscalationMessage ==
    "This query has been escalated to a customer service representative due to its negative sentiment."

\* variant: only the sentiment key is returned
get_sentiment_only(st, result) ==
    IF result.raises
    THEN [raised |-> ClassifierUnavailableError, update |-> NoUpdate]
    ELSE [raised |-> NoError, update |-> [sentiment |-> result.sentiment]]

\* variant: the classification also returns an (empty) response key
get_sentiment_and_category_with_response(st, result) ==
    IF result.raises
    THEN [raised |-> ClassifierUnavailableError, update |-> NoUpdate]
    ELSE [raised |-> NoError,
          update |-> [sentiment |-> result.sentiment, category |-> result.category,
                      response |-> ""]]

\* variant: a failing classifier call is answered with default values
get_sentiment_and_category_default(st, result) ==
    IF result.raises
    THEN [raised |-> NoError, update |-> [sentiment |-> "Neutral", category |-> "General"]]
    ELSE [raised |-> NoError,
          update |-> [sentiment |-> result.sentiment, category |-> result.category]]

\* result is the outcome of chain.invoke on state["query"]
get_sentiment_and_category(st, result) ==
    IF result.raises
    THEN [raised |-> ClassifierUnavailableError, update |-> NoUpdate]
    ELSE [raised |-> NoError,
          update |-> [sentiment |-> result.sentiment, category |-> result.category]]

\* variant: a Billing query is escalated whatever its sentiment
route_query_billing_escalates(st) ==
    IF st.sentiment = "Negative" \/ st.category = "Billing"
    THEN "escalate" ELSE "handle_queries"

\* variant: a query that is not Negative goes straight to the database
route_query_skips_generation(st) ==
    IF st.sentiment = "Negative" THEN "escalate" ELSE "record_to_database"

\* variant: the case compares with the lower-case word
route_query_lowercase(st) ==
    IF st.sentiment = "negative" THEN "escalate" ELSE "handle_queries"

\* variant: only a Positive sentiment is handled, the rest is escalated
route_query_unless_positive(st) ==
    IF st.sentiment = "Positive" THEN "handle_queries" ELSE "escalate"

route_query_from_sentiment(st) ==
    IF st.sentiment = "Negative" THEN "escalate" ELSE "handle_queries"

\* variant: the escalation message names the category
escalate_by_category(st) ==
    [raised |-> NoError,
     update |-> [response |-> IF st.category = "Billing"
                              THEN "This billing query has been escalated."
                              ELSE EscalationMessage]]

\* variant: the escalation also blanks the query it returns
escalate_blanks_query(st) ==
    [raised |-> NoError, update |-> [response |-> EscalationMessage, query |-> ""]]

escalate(st) ==
    [raised |-> NoError, update |-> [response |-> EscalationMessage]]

\* variant: the prompt is built from the sentiment instead of the category
handle_queries_prompt_sentiment(st) == [category |-> st.sentiment, query |-> st.query]

\* the prompt is built from state['category'] and state['query']
handle_queries_prompt(st) == [category |-> st.category, query |-> st.query]

\* variant: a failing llm call is swallowed and the node returns None
handle_queries_swallows(st, result) ==
    IF result.raises
    THEN [raised |-> NoError, update |-> NoUpdate]
    ELSE [raised |-> NoError, update |-> [response |-> result.content]]

\* variant: a failing llm call is answered with a fallback text
handle_queries_fallback(st, result) ==
    IF result.raises
    THEN [raised |-> NoError, update |-> [response |-> "Sorry, please try again later."]]
    ELSE [raised |-> NoError, update |-> [response |-> result.content]]

\* result is the outcome of llm.invoke(prompt)
handle_queries(st, result) ==
    IF result.raises
    THEN [raised |-> GenerationError, update |-> NoUpdate]
    ELSE [raised |-> NoError, update |-> [response |-> result.content]]

\* variant: a failed write is noted in the response
record_to_database_marks_failure(st, ok) ==
    [raised |-> NoError,
     update |-> IF ok THEN NoUpdate ELSE [response |-> "An error occurred"],
     payload |-> st,
     inserted |-> ok,
     printed |-> IF ok THEN << [label |-> "Inserted document ID: ", value |-> "inserted_id"] >>
                 ELSE << [label |-> "An error occurred: ", value |-> StoreWriteError] >>]

\* variant: the node returns the state it was given
record_to_database_returns_state(st, ok) ==
    [raised |-> NoError,
     update |-> st,
     payload |-> st,
     inserted |-> ok,
     printed |-> IF ok THEN << [label |-> "Inserted document ID: ", value |-> "inserted_id"] >>
                 ELSE << [label |-> "An error occurred: ", value |-> StoreWriteError] >>]

\* variant: only the query and the response are stored
record_to_database_partial(st, ok) ==
    [raised |-> NoError,
     update |-> NoUpdate,
     payload |-> [st EXCEPT !.category = Unset, !.sentiment = Unset],
     inserted |-> ok,
     printed |-> IF ok THEN << [label |-> "Inserted document ID: ", value |-> "inserted_id"] >>
                 ELSE << [label |-> "An error occurred: ", value |-> StoreWriteError] >>]

\* variant: the except branch passes silently
record_to_database_silent(st, ok) ==
    [raised |-> NoError,
     update |-> NoUpdate,
     payload |-> st,
     inserted |-> ok,
     printed |-> IF ok THEN << [label |-> "Inserted document ID: ", value |-> "inserted_id"] >>
                 ELSE << >>]

\* variant: no try/except around the insert
record_to_database_reraise(st, ok) ==
    [raised |-> IF ok THEN NoError ELSE StoreWriteError,
     update |-> NoUpdate,
     payload |-> st,
     inserted |-> ok,
     printed |-> IF ok THEN << [label |-> "Inserted document ID: ", value |-> "inserted_id"] >>
                 ELSE << >>]

\* ok: insert_one succeeded; any Exception of the try block is printed
record_to_database(st, ok) ==
    [raised |-> NoError,
     update |-> NoUpdate,
     payload |-> st,
     inserted |-> ok,
     printed |-> IF ok THEN << [label |-> "Inserted document ID: ", value |-> "inserted_id"] >>
                 ELSE << [label |-> "An error occurred: ", value |-> StoreWriteError] >>]

----------------------------------------------------------------------------
(* Graph definition *)

START == "__start__"
END == "__end__"

Nodes == {"get_sentiment_and_category", "escalate", "handle_queries",
          "record_to_database"}

\* variant: escalate has a second edge, to handle_queries
Edges_escalate_fans_out ==
    { <<START, "get_sentiment_and_category">>,
      <<"handle_queries", "record_to_database">>,
      <<"escalate", "record_to_database">>,
      <<"escalate", "handle_queries">>,
      <<"record_to_database", END>> }

\* variant: handle_queries is wired to END
Edges_handle_queries_to_END ==
    { <<START, "get_sentiment_and_category">>,
      <<"handle_queries", END>>,
      <<"escalate", "record_to_database">>,
      <<"record_to_database", END>> }

\* variant: an edge names a node that was never added
Edges_undeclared_target ==
    { <<START, "get_sentiment_and_category">>,
      <<"handle_queries", "record_to_database">>,
      <<"escalate", "save_to_database">>,
      <<"record_to_database", END>> }

\* variant: the database node is wired back to the classification
Edges_record_loops_back ==
    { <<START, "get_sentiment_and_category">>,
      <<"handle_queries", "record_to_database">>,
      <<"escalate", "record_to_database">>,
      <<"record_to_database", "get_sentiment_and_category">> }

\* variant: handle_queries is wired to escalate
Edges_handle_queries_to_escalate ==
    { <<START, "get_sentiment_and_category">>,
      <<"handle_queries", "escalate">>,
      <<"escalate", "record_to_database">>,
      <<"record_to_database", END>> }

\* variant: escalate is wired to END
Edges_escalate_to_END ==
    { <<START, "get_sentiment_and_category">>,
      <<"handle_queries", "record_to_database">>,
      <<"escalate", END>>,
      <<"record_to_database", END>> }

\* builder.add_edge(a, b)
Edges ==
    { <<START, "get_sentiment_and_category">>,
      <<"handle_queries", "record_to_database">>,
      <<"escalate", "record_to_database">>,
      <<"record_to_database", END>> }

\* builder.add_conditional_edges(source, path, path_map)
ConditionalSource == "get_sentiment_and_category"
ConditionalTargets == {"escalate", "handle_queries"}

EdgeTarget(n) == CHOOSE t \in Nodes \cup {END} : <<n, t>> \in Edges

\* the node that follows n once its update is merged into st
NextNode(n, st) ==
    IF n = ConditionalSource
    THEN route_query_from_sentiment(st)
    ELSE EdgeTarget(n)

\* the declared targets of n: its edges and, for the source of the
\* conditional edge, the path_map
Targets(n) ==
    {t \in {e[2] : e \in Edges} : <<n, t>> \in Edges}
    \cup (IF n = ConditionalSource THEN ConditionalTargets ELSE {})

\* the names that can be reached from the names in S along declared targets
RECURSIVE ReachableFrom(_)
ReachableFrom(S) ==
    LET more == S \cup UNION {Targets(n) : n \in S}
    IN IF more = S THEN S ELSE ReachableFrom(more)

\* all the nodes scheduled once n has run on st: every edge out of n and,
\* for the source of the conditional edge, the router's target; nodes
\* scheduled together would run in the same step
Successors(n, st) ==
    {t \in Nodes \cup {END} : <<n, t>> \in Edges}
    \cup (IF n = ConditionalSource THEN {route_query_from_sentiment(st)} ELSE {})

----------------------------------------------------------------------------
(* Positions of a run *)

Idle == "idle"            \* run_agent not called yet
Returned == "returned"    \* run_agent printed the result and returned
Failed == "failed"        \* an exception left graph.invoke and run_agent

Finished(r) == pc[r] \in {Returned, Failed}

\* the notebook calls run_agent one query after the other: a call is made
\* once the call before it has returned or raised
MayStart(r) == pc[r] = Idle /\ \A p \in Runs : p < r => Finished(p)

Executed(r) == [i \in 1 .. Len(updates[r]) |-> updates[r][i].node]

Count(seq, x) == Cardinality({i \in 1 .. Len(seq) : seq[i] = x})

Init ==
    /\ pc = [r \in Runs |-> Idle]
    /\ state = [r \in Runs |-> NoState]
    /\ updates = [r \in Runs |-> <<>>]
    /\ calls = [r \in Runs |-> <<>>]
    /\ out = [r \in Runs |-> <<>>]
    /\ error = [r \in Runs |-> NoError]
    /\ collection = <<>>
    /\ query_arg = [r \in Runs |-> Unset]

----------------------------------------------------------------------------
(* Operations *)

\* run_agent(query) up to the start of the walk: the State is made from the
\* query alone and the entry node is scheduled
run_agent(r, query) ==
    /\ MayStart(r)
    /\ state' = [state EXCEPT ![r] = InitialState(query)]
    /\ pc' = [pc EXCEPT ![r] = EdgeTarget(START)]
    /\ query_arg' = [query_arg EXCEPT ![r] = query]
    /\ UNCHANGED <<updates, calls, out, error, collection>>

\* a node raised: the exception leaves graph.invoke and run_agent
Raise(r, node, res) ==
    /\ pc' = [pc EXCEPT ![r] = Failed]
    /\ error' = [error EXCEPT ![r] = res.raised]
    /\ updates' = [updates EXCEPT ![r] =
                      Append(@, [node |-> node, update |-> NoUpdate, raised |-> TRUE,
                                 routed |-> FALSE, router_read |-> "", router_target |-> ""])]
    /\ UNCHANGED state

\* variant: the conditional edge is evaluated on the State as it was before
\* the node's update is merged
Advance_routes_before_merge(r, node, res) ==
    LET merged == Merge(state[r], res.update)
        target == NextNode(node, state[r])
    IN /\ state' = [state EXCEPT ![r] = merged]
       /\ updates' = [updates EXCEPT ![r] =
                         Append(@, [node |-> node, update |-> res.update, raised |-> FALSE,
                                    routed |-> (node = ConditionalSource),
                                    router_read |-> IF node = ConditionalSource
                                                    THEN state[r].sentiment ELSE "",
                                    router_target |-> IF node = ConditionalSource
                                                      THEN target ELSE ""])]
       /\ IF node = ConditionalSource /\ target \notin ConditionalTargets
          THEN /\ pc' = [pc EXCEPT ![r] = Failed]
               /\ error' = [error EXCEPT ![r] = RoutingError]
          ELSE /\ pc' = [pc EXCEPT ![r] = target]
               /\ UNCHANGED error

\* variant: the State is one dict shared by the runs in flight, so an update
\* is written into each of them
Advance_shared(r, node, res) ==
    LET merged == Merge(state[r], res.update)
        target == NextNode(node, merged)
    IN /\ state' = [p \in Runs |-> IF p = r \/ pc[p] \in Nodes
                                    THEN Merge(state[p], res.update) ELSE state[p]]
       /\ updates' = [updates EXCEPT ![r] =
                         Append(@, [node |-> node, update |-> res.update, raised |-> FALSE,
                                    routed |-> (node = ConditionalSource),
                                    router_read |-> IF node = ConditionalSource
                                                    THEN merged.sentiment ELSE "",
                                    router_target |-> IF node = ConditionalSource
                                                      THEN target ELSE ""])]
       /\ IF node = ConditionalSource /\ target \notin ConditionalTargets
          THEN /\ pc' = [pc EXCEPT ![r] = Failed]
               /\ error' = [error EXCEPT ![r] = RoutingError]
          ELSE /\ pc' = [pc EXCEPT ![r] = target]
               /\ UNCHANGED error

\* a node returned: its update is merged and the outgoing edge is followed;
\* a conditional edge is evaluated on the merged State and its result must
\* be one of the declared targets
Advance(r, node, res) ==
    LET merged == Merge(state[r], res.update)
        target == NextNode(node, merged)
    IN /\ state' = [state EXCEPT ![r] = merged]
       /\ updates' = [updates EXCEPT ![r] =
                         Append(@, [node |-> node, update |-> res.update, raised |-> FALSE,
                                    routed |-> (node = ConditionalSource),
                                    router_read |-> IF node = ConditionalSource
                                                    THEN merged.sentiment ELSE "",
                                    router_target |-> IF node = ConditionalSource
                                                      THEN target ELSE ""])]
       /\ IF node = ConditionalSource /\ target \notin ConditionalTargets
          THEN /\ pc' = [pc EXCEPT ![r] = Failed]
               /\ error' = [error EXCEPT ![r] = RoutingError]
          ELSE /\ pc' = [pc EXCEPT ![r] = target]
               /\ UNCHANGED error

Step_get_sentiment_and_category(r) ==
    /\ pc[r] = "get_sentiment_and_category"
    /\ \E result \in ClassifierOutcomes :
         LET res == get_sentiment_and_category(state[r], result)
         IN /\ calls' = [calls EXCEPT ![r] =
                           Append(@, [capability |-> "classify", query |-> state[r].query,
                                      result |-> result])]
            /\ IF res.raised # NoError
               THEN Raise(r, "get_sentiment_and_category", res)
               ELSE Advance(r, "get_sentiment_and_category", res)
            /\ UNCHANGED <<out, collection, query_arg>>

Step_escalate(r) ==
    /\ pc[r] = "escalate"
    /\ Advance(r, "escalate", escalate(state[r]))
    /\ UNCHANGED <<calls, out, collection, query_arg>>

Step_handle_queries(r) ==
    /\ pc[r] = "handle_queries"
    /\ \E result \in GeneratorOutcomes :
         LET res == handle_queries(state[r], result)
         IN /\ calls' = [calls EXCEPT ![r] =
                           Append(@, [capability |-> "generate",
                                      prompt |-> handle_queries_prompt(state[r]),
                                      result |-> result])]
            /\ IF res.raised # NoError
               THEN Raise(r, "handle_queries", res)
               ELSE Advance(r, "handle_queries", res)
            /\ UNCHANGED <<out, collection, query_arg>>

Step_record_to_database(r) ==
    /\ pc[r] = "record_to_database"
    /\ \E ok \in BOOLEAN :
         LET res == record_to_database(state[r], ok)
         IN /\ calls' = [calls EXCEPT ![r] =
                           Append(@, [capability |-> "save", record |-> res.payload,
                                      result |-> [raises |-> ~ok]])]
            /\ collection' = IF res.inserted THEN Append(collection, res.payload)
                             ELSE collection
            /\ out' = [out EXCEPT ![r] = @ \o res.printed]
            /\ IF res.raised # NoError
               THEN Raise(r, "record_to_database", res)
               ELSE Advance(r, "record_to_database", res)
            /\ UNCHANGED query_arg

\* graph.invoke returned the final State: run_agent prints it and returns
run_agent_print(r) ==
    /\ pc[r] = END
    /\ out' = [out EXCEPT ![r] = @ \o
                 << [label |-> "Query: ", value |-> query_arg[r]],
                    [label |-> "Sentiment: ", value |-> state[r].sentiment],
                    [label |-> "Category: ", value |-> state[r].category],
                    [label |-> "Response: ", value |-> state[r].response] >>]
    /\ pc' = [pc EXCEPT ![r] = Returned]
    /\ UNCHANGED <<state, updates, calls, error, collection, query_arg>>

Next ==
    \E r \in Runs :
        \/ \E query \in Queries : run_agent(r, query)
        \/ Step_get_sentiment_and_category(r)
        \/ Step_escalate(r)
        \/ Step_handle_queries(r)
        \/ Step_record_to_database(r)
        \/ run_agent_print(r)

Spec == Init /\ [][Next]_vars

\* graph.invoke is synchronous: once a call is made, each of its steps is
\* taken as soon as the capability it waits on has answered (no fairness is
\* put on the caller making a call)
Fairness ==
    \A r \in Runs :
        /\ WF_vars(Step_get_sentiment_and_category(r))
        /\ WF_vars(Step_escalate(r))
        /\ WF_vars(Step_handle_queries(r))
        /\ WF_vars(Step_record_to_database(r))
        /\ WF_vars(run_agent_print(r))

SpecFair == Spec /\ Fairness

\* run_agent called while other calls are in flight (callers on several
\* threads): each graph.invoke makes its own State from its own query
run_agent_concurrently(r, query) ==
    /\ pc[r] = Idle
    /\ state' = [state EXCEPT ![r] = InitialState(query)]
    /\ pc' = [pc EXCEPT ![r] = EdgeTarget(START)]
    /\ query_arg' = [query_arg EXCEPT ![r] = query]
    /\ UNCHANGED <<updates, calls, out, error, collection>>

NextConcurrent ==
    \E r \in Runs :
        \/ \E query \in Queries : run_agent_concurrently(r, query)
        \/ Step_get_sentiment_and_category(r)
        \/ Step_escalate(r)
        \/ Step_handle_queries(r)
        \/ Step_record_to_database(r)
        \/ run_agent_print(r)

\* the walks of the runs interleave node by node in any order
SpecConcurrent == Init /\ [][NextConcurrent]_vars

\* the State one walk of the graph ends with when run on its own with query
\* q, the classifier answering cls and the llm answering gen
RunAlone(q, cls, gen) ==
    LET s0 == InitialState(q)
        c == get_sentiment_and_category(s0, cls)
    IN IF c.raised # NoError
       THEN s0
       ELSE LET s1 == Merge(s0, c.update)
                b == IF route_query_from_sentiment(s1) = "escalate"
                     THEN escalate(s1) ELSE handle_queries(s1, gen)
            IN IF b.raised # NoError
               THEN s1
               ELSE LET s2 == Merge(s1, b.update)
                    IN Merge(s2, record_to_database(s2, TRUE).update)

----------------------------------------------------------------------------
(* Vocabulary of the properties *)

Range(seq) == {seq[i] : i \in 1 .. Len(seq)}

\* graph.invoke returned a final State to run_agent
Completed(r) == pc[r] \in {END, Returned}

\* the capabilities invoked by run r
Invoked(r) == {calls[r][i].capability : i \in 1 .. Len(calls[r])}

\* the values run_agent printed under a label
Printed(r, label) == {out[r][i].value : i \in {j \in 1 .. Len(out[r]) : out[r][j].label = label}}

\* the classifier returned a QueryDetails in run r
Classified(r) == Len(calls[r]) >= 1 /\ ~calls[r][1].result.raises

\* ... with a sentiment or a category outside the prompted values
OutOfDomain(r) ==
    /\ Classified(r)
    /\ \/ calls[r][1].result.sentiment \notin SentimentDomain
       \/ calls[r][1].result.category \notin CategoryDomain

\* the store write of run r raised
StoreFailed(r) ==
    \E i \in 1 .. Len(calls[r]) : calls[r][i].capability = "save" /\ calls[r][i].result.raises

\* the classifier chain raised in run r
ClassifierFailed(r) == Len(calls[r]) >= 1 /\ calls[r][1].result.raises

\* the evaluations of the router in run r: the sentiment read, the target
RouterEvaluations(r) ==
    {[read |-> updates[r][i].router_read, target |-> updates[r][i].router_target,
      query |-> state[r].query, category |-> state[r].category] :
        i \in {j \in 1 .. Len(updates[r]) : updates[r][j].routed}}

\* the records handed to insert_one by run r
Payloads(r) ==
    {calls[r][i].record : i \in {j \in 1 .. Len(calls[r]) : calls[r][j].capability = "save"}}

\* the labels of the lines run r printed
Labels(r) == {out[r][i].label : i \in 1 .. Len(out[r])}

\* what the classifier and the llm answered in run r
ClassifierOutcome(r) == calls[r][1].result
GeneratorOutcome(r) ==
    LET gens == {i \in 1 .. Len(calls[r]) : calls[r][i].capability = "generate"}
    IN IF gens = {} THEN [raises |-> TRUE, content |-> ""]
       ELSE calls[r][CHOOSE i \in gens : TRUE].result

\* the steps of run r whose returned update holds key f
Writers(r, f) == {i \in 1 .. Len(updates[r]) : f \in DOMAIN updates[r][i].update}

\* the generating llm raised in run r
GenerationFailed(r) ==
    \E i \in 1 .. Len(calls[r]) : calls[r][i].capability = "generate" /\ calls[r][i].result.raises

----------------------------------------------------------------------------
(* Properties *)

\* C1: in a run whose classification wrote sentiment = Negative, handle_queries
\* is never run and the generating llm is never invoked, and the final
\* response (in the State returned and as printed) is the escalation message.
C1_NegativeIsEscalated ==
    \A r \in Runs :
        state[r].sentiment = "Negative" =>
            /\ "handle_queries" \notin Range(Executed(r))
            /\ pc[r] # "handle_queries"
            /\ "generate" \notin Invoked(r)
            /\ pc[r] # Failed
            /\ Completed(r) => state[r].response = EscalationMessage
            /\ pc[r] = Returned => Printed(r, "Response: ") = {EscalationMessage}

C1_Witness ==
    \E r \in Runs :
        /\ pc[r] = Returned
        /\ state[r].sentiment = "Negative"
        /\ state[r].response = EscalationMessage

\* C2: in a run whose classification wrote a sentiment other than Negative
\* (prompted or not), the router selects handle_queries and escalate is
\* never run.
C2_OtherSentimentIsHandled ==
    \A r \in Runs :
        (state[r].sentiment # Unset /\ state[r].sentiment # "Negative") =>
            /\ "escalate" \notin Range(Executed(r))
            /\ pc[r] # "escalate"
            /\ Len(updates[r]) = 1 => pc[r] = "handle_queries"
            /\ Len(updates[r]) >= 2 => updates[r][2].node = "handle_queries"

C2_Witness ==
    \E r \in Runs :
        /\ state[r].sentiment = "Mixed"
        /\ pc[r] = Returned
        /\ updates[r][2].node = "handle_queries"

InvalidClassificationError == "InvalidClassificationError"

\* C3: when the classifier returns a category or a sentiment outside the
\* prompted values, the run fails with InvalidClassificationError with only
\* the classification run (no router, no later node) and the value is not
\* stored in the State.
C3_OutOfDomainIsRejected ==
    \A r \in Runs :
        OutOfDomain(r) =>
            /\ pc[r] = Failed
            /\ error[r] = InvalidClassificationError
            /\ Len(updates[r]) = 1
            /\ state[r].category = Unset
            /\ state[r].sentiment = Unset

\* C4: when the store write raises, the run is not failed by it: the walk
\* completes, no exception reaches the caller, and the response in the final
\* State (and the one printed) is the one the State held when persistence
\* started.
C4_StoreFailureIsContained ==
    \A r \in Runs :
        StoreFailed(r) =>
            /\ Completed(r)
            /\ error[r] = NoError
            /\ \A i \in 1 .. Len(calls[r]) :
                  calls[r][i].capability = "save" =>
                      /\ state[r].response = calls[r][i].record.response
                      /\ state[r].response = updates[r][2].update.response
            /\ pc[r] = Returned => Printed(r, "Response: ") = {updates[r][2].update.response}

C4_Witness ==
    \E r \in Runs :
        /\ StoreFailed(r)
        /\ pc[r] = Returned
        /\ state[r].response = SampleTexts[1]

\* C5: no run executes both escalate and handle_queries, and a completed run
\* executed exactly one of them, which wrote response.
C5_ExactlyOneBranch ==
    \A r \in Runs :
        LET n == Count(Executed(r), "escalate") + Count(Executed(r), "handle_queries")
            writers == {i \in 1 .. Len(updates[r]) : "response" \in DOMAIN updates[r][i].update}
        IN /\ n <= 1
           /\ Completed(r) =>
                 /\ n = 1
                 /\ Cardinality(writers) = 1
                 /\ \A i \in writers : updates[r][i].node \in {"escalate", "handle_queries"}

C5_Witness ==
    \E r, p \in Runs :
        /\ Completed(r) /\ "escalate" \in Range(Executed(r))
        /\ Completed(p) /\ "handle_queries" \in Range(Executed(p))

\* C6: a completed run executed record_to_database exactly once, as its last
\* node, and holds a response; while a node is still to run,
\* record_to_database has not run.
C6_PersistenceIsLast ==
    \A r \in Runs :
        /\ Completed(r) =>
              /\ Count(Executed(r), "record_to_database") = 1
              /\ updates[r][Len(updates[r])].node = "record_to_database"
              /\ state[r].response # Unset
        /\ pc[r] \in Nodes => "record_to_database" \notin Range(Executed(r))

C6_Witness ==
    \E r \in Runs :
        /\ pc[r] = END
        /\ Len(updates[r]) = 3
        /\ updates[r][3].node = "record_to_database"

\* C7: a completed run ends with category among General, Billing, Technical
\* and sentiment among Positive, Neutral, Negative, whatever the classifier
\* returned.
C7_CompletedRunIsInDomain ==
    \A r \in Runs :
        Completed(r) =>
            /\ state[r].category \in CategoryDomain
            /\ state[r].sentiment \in SentimentDomain

\* C8 (as stated): response is set only once persistence has been reached;
\* while classification, escalate, handle_queries or persistence is the
\* node still to run, the State carries no response.
C8_NoResponseBeforePersistence ==
    \A r \in Runs :
        /\ pc[r] \in Nodes => state[r].response = Unset
        /\ Completed(r) => state[r].response # Unset

\* C8 (amended): response is set if and only if escalate or handle_queries
\* has returned: it is unset while classification, escalate or
\* handle_queries is still to run (and in a failed run), and set from the
\* point where persistence is the next node onwards.
C8_ResponseSetOnceBranchReturned ==
    \A r \in Runs :
        (state[r].response # Unset) <=> (pc[r] \in {"record_to_database", END, Returned})

C8_Witness ==
    \E r \in Runs :
        /\ pc[r] = "record_to_database"
        /\ "record_to_database" \notin Range(Executed(r))
        /\ state[r].response # Unset

\* C9: category and sentiment are both unset or both set in every state, and
\* the classification returns the two keys in one update.
C9_ClassifiedTogether ==
    \A r \in Runs :
        /\ (state[r].category = Unset) <=> (state[r].sentiment = Unset)
        /\ \A i \in 1 .. Len(updates[r]) :
              (updates[r][i].node = "get_sentiment_and_category" /\ ~updates[r][i].raised)
                  => DOMAIN updates[r][i].update = {"sentiment", "category"}

C9_Witness ==
    \E r \in Runs :
        /\ Len(updates[r]) = 1
        /\ state[r].category = "Billing"
        /\ state[r].sentiment = "Positive"

\* C10: when the generating llm raises inside handle_queries, the exception
\* reaches the caller: the run is failed, response stays unset, nothing is
\* stored and run_agent prints no result.
C10_GenerationFailureSurfaces ==
    \A r \in Runs :
        GenerationFailed(r) =>
            /\ pc[r] = Failed
            /\ error[r] = GenerationError
            /\ state[r].response = Unset
            /\ "save" \notin Invoked(r)
            /\ out[r] = << >>

C10_Witness ==
    \E r \in Runs :
        /\ GenerationFailed(r)
        /\ pc[r] = Failed
        /\ updates[r][2].node = "handle_queries"

\* C11: when the classifier chain raises, the exception reaches the caller:
\* the run is failed after the classification alone, the router is not
\* evaluated, no other node runs, no other capability is invoked, nothing is
\* printed, and category, sentiment and response stay unset.
C11_ClassifierFailureSurfaces ==
    \A r \in Runs :
        ClassifierFailed(r) =>
            /\ pc[r] = Failed
            /\ error[r] = ClassifierUnavailableError
            /\ Executed(r) = << "get_sentiment_and_category" >>
            /\ RouterEvaluations(r) = {}
            /\ Invoked(r) = {"classify"}
            /\ out[r] = << >>
            /\ state[r].category = Unset
            /\ state[r].sentiment = Unset
            /\ state[r].response = Unset

C11_Witness ==
    \E r \in Runs :
        /\ ClassifierFailed(r)
        /\ pc[r] = Failed
        /\ state[r].query = "What are your business hours?"

InvalidInputError == "InvalidInputError"

\* C12: a run started with an empty query fails with InvalidInputError: no
\* node runs and no capability is invoked for it.
C12_EmptyQueryIsRejected ==
    \A r \in Runs :
        (pc[r] # Idle /\ state[r].query = "") =>
            /\ updates[r] = << >>
            /\ calls[r] = << >>
            /\ ~Completed(r)
            /\ pc[r] = Failed => error[r] = InvalidInputError

C14_RouterReturnsDeclaredTarget ==
    \A r \in Runs :
        /\ \A e \in RouterEvaluations(r) : e.target \in ConditionalTargets
        /\ error[r] # RoutingError
        /\ \A i \in 1 .. Len(updates[r]) :
              updates[r][i].routed =>
                  /\ updates[r][i].node = ConditionalSource
                  /\ i = Len(updates[r]) => pc[r] = updates[r][i].router_target
                  /\ i < Len(updates[r]) => updates[r][i + 1].node = updates[r][i].router_target

C14_Witness ==
    \E r, p \in Runs :
        /\ \E e \in RouterEvaluations(r) : e.target = "escalate"
        /\ \E e \in RouterEvaluations(p) : e.target = "handle_queries"
        /\ pc[r] = Returned
        /\ pc[p] = Returned

\* C15: the record handed to the store is the whole final State: its four
\* fields equal the State graph.invoke returns, the values run_agent prints,
\* and (when stored) the document in the collection.
C15_StoredRecordIsFinalState ==
    \A r \in Runs :
        /\ Completed(r) => Payloads(r) = {state[r]}
        /\ \A rec \in Payloads(r) : DOMAIN rec = Fields
        /\ pc[r] = Returned =>
              \A rec \in Payloads(r) :
                  /\ Printed(r, "Query: ") = {rec.query}
                  /\ Printed(r, "Sentiment: ") = {rec.sentiment}
                  /\ Printed(r, "Category: ") = {rec.category}
                  /\ Printed(r, "Response: ") = {rec.response}
        /\ (Completed(r) /\ ~StoreFailed(r)) => state[r] \in Range(collection)

C15_Witness ==
    \E r \in Runs :
        /\ pc[r] = Returned
        /\ ~StoreFailed(r)
        /\ state[r].category = "Technical"
        /\ state[r].response = SampleTexts[1]
        /\ state[r] \in Range(collection)

\* C16: a failing store write is reported on its own: the run completes
\* without error and prints one "An error occurred" line (and no inserted
\* id) before its result; a run whose write succeeded prints no such line.
C16_StoreFailureIsReported ==
    \A r \in Runs :
        /\ StoreFailed(r) =>
              /\ Completed(r)
              /\ error[r] = NoError
              /\ Printed(r, "An error occurred: ") = {StoreWriteError}
              /\ Count([i \in 1 .. Len(out[r]) |-> out[r][i].label], "An error occurred: ") = 1
              /\ "Inserted document ID: " \notin Labels(r)
        /\ "An error occurred: " \in Labels(r) => StoreFailed(r)

C16_Witness ==
    \E r \in Runs :
        /\ StoreFailed(r)
        /\ pc[r] = Returned
        /\ out[r][1].label = "An error occurred: "
        /\ Len(out[r]) = 5

\* C17: a completed run that took the handle_queries branch ends with a
\* non-empty response, whatever content the llm returned.
C17_GeneratedResponseIsNonEmpty ==
    \A r \in Runs :
        (Completed(r) /\ "handle_queries" \in Range(Executed(r))) =>
            /\ state[r].response # Unset
            /\ state[r].response # ""

\* C18: the nodes of a run execute one after the other in the order
\* classification, one of escalate / handle_queries, persistence: every node
\* that ran scheduled exactly one successor, which is the one node pending,
\* and the pending node has not run before.
C18_OneStepAtATime ==
    \A r \in Runs :
        LET n == Len(updates[r])
        IN /\ n <= 3
           /\ n >= 1 => updates[r][1].node = "get_sentiment_and_category"
           /\ n >= 2 => updates[r][2].node \in {"escalate", "handle_queries"}
           /\ n >= 3 => updates[r][3].node = "record_to_database"
           /\ \A i \in 1 .. n :
                 ~updates[r][i].raised =>
                     Cardinality(Successors(updates[r][i].node, state[r])) = 1
           /\ (n >= 1 /\ pc[r] \in Nodes \cup {END}) =>
                 Successors(updates[r][n].node, state[r]) = {pc[r]}
           /\ pc[r] \in Nodes => pc[r] \notin Range(Executed(r))

C18_Witness ==
    \E r \in Runs :
        /\ pc[r] = END
        /\ Executed(r) = << "get_sentiment_and_category", "handle_queries", "record_to_database" >>

\* C19: when the steps of two runs interleave in any order, each run ends
\* with the State it ends with when run alone on its query with the same
\* classifier and llm answers, and the record it hands to the store is its
\* own State.
C19_RunsAreIndependent ==
    \A r \in Runs :
        (Finished(r) \/ Completed(r)) =>
            /\ Len(calls[r]) >= 1
            /\ state[r] = RunAlone(query_arg[r], ClassifierOutcome(r), GeneratorOutcome(r))
            /\ \A rec \in Payloads(r) : rec = state[r]

\* both runs were in flight together, on different queries, and both ended
C19_Witness ==
    /\ \A r \in Runs : pc[r] = Returned
    /\ query_arg[1] # query_arg[2]
    /\ state[1].sentiment = "Negative"
    /\ state[2].sentiment = "Positive"
    /\ Len(collection) = 2
    /\ collection[1] = state[2]
    /\ collection[2] = state[1]

C21_QueryIsImmutable ==
    \A r \in Runs :
        pc[r] # Idle =>
            /\ state[r].query = query_arg[r]
            /\ Writers(r, "query") = {}
            /\ \A rec \in Payloads(r) : rec.query = query_arg[r]

C21_Witness ==
    \E r \in Runs :
        /\ pc[r] = Returned
        /\ "escalate" \in Range(Executed(r))
        /\ state[r].query = "The delivery experience of my recent package was pretty bad."
        /\ query_arg[r] = state[r].query

\* C22: a run starts from a State that holds the caller's query only,
\* whatever the earlier run ended with, and every value its State holds
\* later was written by one of its own steps.
C22_RunStartsFresh ==
    \A r \in Runs :
        /\ (pc[r] # Idle /\ updates[r] = << >>) =>
              /\ state[r].query = query_arg[r]
              /\ state[r].category = Unset
              /\ state[r].sentiment = Unset
              /\ state[r].response = Unset
              /\ calls[r] = << >>
              /\ out[r] = << >>
        /\ \A f \in {"category", "sentiment", "response"} :
              state[r][f] # Unset =>
                  \E i \in Writers(r, f) : updates[r][i].update[f] = state[r][f]

\* the second run is about to start its walk after a first run that ended
\* with all its fields set (and the second may end where the first failed)
C22_Witness ==
    /\ pc[1] = Returned
    /\ state[1].category = "Billing"
    /\ state[1].response = SampleTexts[1]
    /\ pc[2] = "get_sentiment_and_category"
    /\ state[2].response = Unset

\* C23: a run whose capabilities answer (with a result or an exception)
\* terminates on either branch: once started it ends returned or failed,
\* after at most three node executions, no node being executed twice.
C23_RunTerminates ==
    /\ [](\A r \in Runs :
            /\ Len(updates[r]) <= 3
            /\ \A n \in Nodes : Count(Executed(r), n) <= 1
            /\ Finished(r) => Len(updates[r]) \in {1, 2, 3})
    /\ \A r \in Runs : (pc[r] # Idle) ~> Finished(r)

C23_Witness ==
    \E r, p \in Runs :
        /\ pc[r] = Returned /\ Len(updates[r]) = 3 /\ "escalate" \in Range(Executed(r))
        /\ pc[p] = Failed /\ Len(updates[p]) = 2 /\ "handle_queries" \in Range(Executed(p))

\* C24: the router is evaluated once, right after the update of the
\* classification is merged: the sentiment it reads is the one the
\* classifier returned in this run (the one in the State), never Unset.
C24_RouterReadsMergedState ==
    \A r \in Runs :
        /\ \A i \in 1 .. Len(updates[r]) :
              updates[r][i].routed =>
                  /\ i = 1
                  /\ Classified(r)
                  /\ updates[r][i].router_read # Unset
                  /\ updates[r][i].router_read = ClassifierOutcome(r).sentiment
                  /\ updates[r][i].router_read = updates[r][i].update.sentiment
                  /\ updates[r][i].router_read = state[r].sentiment
        /\ (Len(updates[r]) >= 1 /\ ~updates[r][1].raised) => updates[r][1].routed

C24_Witness ==
    \E r \in Runs :
        /\ Len(updates[r]) = 1
        /\ updates[r][1].routed
        /\ updates[r][1].router_read = "Negative"
        /\ pc[r] = "escalate"

\* C25: escalate invokes no capability and returns the same update for
\* every State, the fixed message alone; persistence is the node that
\* follows it.
C25_EscalateIsFixed ==
    \A r \in Runs :
        \A i \in 1 .. Len(updates[r]) :
            updates[r][i].node = "escalate" =>
                /\ ~updates[r][i].raised
                /\ DOMAIN updates[r][i].update = {"response"}
                /\ updates[r][i].update.response = EscalationMessage
                /\ Invoked(r) \subseteq {"classify", "save"}
                /\ i = Len(updates[r]) =>
                      /\ pc[r] = "record_to_database"
                      /\ Len(calls[r]) = 1
                      /\ out[r] = << >>
                /\ i < Len(updates[r]) => updates[r][i + 1].node = "record_to_database"

\* escalate has just run on a Billing query
C25_Witness ==
    \E r \in Runs :
        /\ Len(updates[r]) = 2
        /\ updates[r][2].node = "escalate"
        /\ state[r].category = "Billing"
        /\ pc[r] = "record_to_database"

\* C26: the generating llm is invoked with the query the caller passed and
\* the category the classifier returned in the same run, as the second
\* capability call of the run, after a classification that returned.
C26_GenerationInputs ==
    \A r \in Runs :
        \A i \in 1 .. Len(calls[r]) :
            calls[r][i].capability = "generate" =>
                /\ i = 2
                /\ calls[r][1].capability = "classify"
                /\ Classified(r)
                /\ calls[r][i].prompt.query = query_arg[r]
                /\ calls[r][i].prompt.category = ClassifierOutcome(r).category
                /\ updates[r][1].node = "get_sentiment_and_category"
                /\ updates[r][2].node = "handle_queries"

C26_Witness ==
    \E r \in Runs :
        /\ Len(calls[r]) = 2
        /\ calls[r][2].capability = "generate"
        /\ calls[r][2].prompt.category = "Technical"
        /\ calls[r][2].prompt.query = "What are your business hours?"
        /\ state[r].sentiment = "Positive"

\* C27: the store is invoked at most once per run and only with a State that
\* holds a response; a run that failed (in the classification or in the
\* generation) never invoked it, and the collection holds one document per
\* successful write.
C27_StoreOnlyAfterResponse ==
    /\ \A r \in Runs :
          LET saves == {i \in 1 .. Len(calls[r]) : calls[r][i].capability = "save"}
          IN /\ Cardinality(saves) <= 1
             /\ \A i \in saves :
                   /\ calls[r][i].record.response # Unset
                   /\ Writers(r, "response") # {}
                   /\ i = Len(calls[r])
             /\ (pc[r] = Failed \/ ClassifierFailed(r) \/ GenerationFailed(r)) => saves = {}
    /\ Len(collection) =
          Cardinality({r \in Runs : "save" \in Invoked(r) /\ ~StoreFailed(r)})

\* one run failed in the generation and stored nothing, the other stored
C27_Witness ==
    \E r, p \in Runs :
        /\ GenerationFailed(r) /\ pc[r] = Failed
        /\ pc[p] = Returned /\ ~StoreFailed(p)
        /\ collection = << state[p] >>

\* C28: in a completed run the store write has been attempted, and its
\* outcome line is printed, before graph.invoke returns: the outcome line is
\* the first line of the run and the four lines of the result follow it.
C28_PersistenceBeforeReturn ==
    \A r \in Runs :
        /\ Completed(r) =>
              /\ "save" \in Invoked(r)
              /\ Len(out[r]) >= 1
              /\ out[r][1].label \in {"Inserted document ID: ", "An error occurred: "}
        /\ pc[r] = END => Len(out[r]) = 1
        /\ pc[r] = Returned =>
              /\ Len(out[r]) = 5
              /\ [i \in 1 .. 4 |-> out[r][i + 1].label] =
                     << "Query: ", "Sentiment: ", "Category: ", "Response: " >>
        /\ \A i \in 1 .. Len(out[r]) :
              out[r][i].label \in {"Query: ", "Sentiment: ", "Category: ", "Response: "} => i > 1

C28_Witness ==
    \E r \in Runs :
        /\ pc[r] = Returned
        /\ out[r][1].label = "Inserted document ID: "
        /\ out[r][5].label = "Response: "
        /\ out[r][5].value = SampleTexts[1]

\* C29: record_to_database returns no update: the State after the step
\* equals the State before it, whether the write succeeded or failed.
C29_PersistenceLeavesState ==
    /\ [](\A r \in Runs :
            \A i \in 1 .. Len(updates[r]) :
                updates[r][i].node = "record_to_database" =>
                    /\ DOMAIN updates[r][i].update = {}
                    /\ \A rec \in Payloads(r) : rec = state[r])
    /\ [][\A r \in Runs : pc[r] = "record_to_database" => state'[r] = state[r]]_vars

\* the step has run with a failing write
C29_Witness ==
    \E r \in Runs :
        /\ pc[r] = END
        /\ StoreFailed(r)
        /\ state[r].response = EscalationMessage
        /\ state[r].category = "General"

\* C30: the graph is well formed: START has an edge to a declared node,
\* every edge goes from START or a declared node to a declared node or END,
\* the conditional edge starts at a declared node and lists declared nodes,
\* every declared node (and END) can be reached from START, and a walk is
\* only ever at a declared node.
C30_GraphIsWellFormed ==
    /\ \E e \in Edges : e[1] = START /\ e[2] \in Nodes
    /\ \A e \in Edges : e[1] \in Nodes \cup {START} /\ e[2] \in Nodes \cup {END}
    /\ ConditionalSource \in Nodes
    /\ ConditionalTargets \subseteq Nodes
    /\ Nodes \cup {END} \subseteq ReachableFrom({START})
    /\ \A r \in Runs :
          /\ pc[r] \in Nodes \cup {Idle, END, Returned, Failed}
          /\ Range(Executed(r)) \subseteq Nodes

\* the two runs together executed every declared node and reached END
C30_Witness ==
    /\ \A r \in Runs : pc[r] = Returned
    /\ Range(Executed(1)) \cup Range(Executed(2)) = Nodes

====
